---- MODULE Spec2Model ----
(***************************************************************************)
(* Light-curve simulator (lcs): two elliptical bodies, the flux of each,   *)
(* the flux of the system under occultation, and Binary.simulate.          *)
(*                                                                         *)
(* Lengths are counted on a lattice whose spacing is 0.5 length units, so  *)
(* that the 0.5 offset of Ellipse.geometry is one lattice step.  A shapely *)
(* polygon is the set of lattice points it covers, its area the number of  *)
(* those points, and difference the set difference.  Angles are degrees    *)
(* and are kept to multiples of 90, where rotating an ellipse about its    *)
(* centre exchanges its two extents.  Brightness values are integers.      *)
(***************************************************************************)
EXTENDS Integers, Sequences, FiniteSets, TLC

VARIABLES bodyA, bodyB, pc, xs, ys, angs, it, ret, args, pre, outcome, lc,
          chain, lastOp, calls

vars == <<bodyA, bodyB, pc, xs, ys, angs, it, ret, args, pre, outcome, lc,
          chain, lastOp, calls>>

(* ------------------------------ bounds --------------------------------- *)

\* Largest number of API calls (move, rotate, reshape, simulate) in a run.
MaxCalls == 3

\* Largest `step` argument handed to simulate.
MaxStep == 3

(* ------------------------------ helpers -------------------------------- *)

Abs(n) == IF n < 0 THEN -n ELSE n

\* max() / min() of a two-element range, as EllipticRing.geometry calls them.
Max2(r) == IF r[1] >= r[2] THEN r[1] ELSE r[2]

Min2(r) == IF r[1] <= r[2] THEN r[1] ELSE r[2]

\* The 0.5 subtracted from both coordinates in Ellipse.geometry, in lattice steps.
OFFSET == 1

\* Point + Point (v3d.Point, used by `self.pos += point`).
PointAdd(p, q) == <<p[1] + q[1], p[2] + q[2]>>

(* ------------------------------ numpy ---------------------------------- *)

\* np.linspace(start, stop, num) raises ValueError for a negative num.
linspace_raises(num) == num < 0

\* linspace as it would be with the endpoint left out (endpoint=False).
linspace_open(start, stop, num) ==
    [i \in 1..num |-> start + ((i - 1) * (stop - start)) \div num]

\* np.linspace(start, stop, num), endpoint included: num samples, the first
\* is start, and for num > 1 the last is stop; one sample is start alone.
linspace(start, stop, num) ==
    [i \in 1..num |->
        IF num = 1 THEN start
        ELSE start + ((i - 1) * (stop - start)) \div (num - 1)]

\* The samples of linspace(start, stop, num) are multiples of `grain`
\* (start and stop are): the inputs of the model are chosen so.
OnLattice(start, stop, num, grain) ==
    IF num <= 1 THEN TRUE
    ELSE (Abs(stop - start) % (grain * (num - 1))) = 0

(* ------------------------------ geometry ------------------------------- *)

\* rotate(scale(Point(cx, cy).buffer(1), xfact, yfact), theta): the unit disc
\* about (cx, cy), scaled about its centre and rotated about its centre.
\* A negative factor mirrors the disc, a zero factor flattens it to area 0.
ScaledRotatedDisc(cx, cy, xfact, yfact, theta) ==
    LET quarter == (theta \div 90) % 2
        ex == IF quarter = 0 THEN Abs(xfact) ELSE Abs(yfact)
        ey == IF quarter = 0 THEN Abs(yfact) ELSE Abs(xfact)
    IN  IF ex = 0 \/ ey = 0 THEN {}
        ELSE {p \in ((cx - ex)..(cx + ex)) \X ((cy - ey)..(cy + ey)) :
                (p[1] - cx) * (p[1] - cx) * ey * ey
              + (p[2] - cy) * (p[2] - cy) * ex * ex <= ex * ex * ey * ey}

\* Polygon.area
area(g) == Cardinality(g)

\* Polygon.difference
difference(g, h) == g \ h

\* Ellipse.__init__
Ellipse(pos, a, b, theta, brightness) ==
    [kind |-> "Ellipse", pos |-> pos, a |-> a, b |-> b, theta |-> theta,
     brightness |-> brightness]

\* EllipticRing.__init__
EllipticRing(pos, a_range, b_range, theta, brightness) ==
    [kind |-> "EllipticRing", pos |-> pos, a_range |-> a_range,
     b_range |-> b_range, theta |-> theta, brightness |-> brightness]

\* Ellipse.geometry
Ellipse_geometry(e) ==
    ScaledRotatedDisc(e.pos[1] - OFFSET, e.pos[2] - OFFSET, e.a, e.b, e.theta)

\* EllipticRing.geometry
EllipticRing_geometry(r) ==
    LET outer == ScaledRotatedDisc(r.pos[1], r.pos[2],
                                   Max2(r.a_range), Max2(r.b_range), r.theta)
        inner == ScaledRotatedDisc(r.pos[1], r.pos[2],
                                   Min2(r.a_range), Min2(r.b_range), r.theta)
    IN  difference(outer, inner)

\* b.geometry, dispatched on the class of b
geometry(region) ==
    IF region.kind = "Ellipse" THEN Ellipse_geometry(region)
    ELSE EllipticRing_geometry(region)

(* ------------------------------ body ----------------------------------- *)

\* EllipticalBody.__init__; brightness is [kind |-> "scalar", v |-> k] or
\* [kind |-> "profile", v |-> <<k1, ..., kn>>].
EllipticalBody(pos, a, b, theta, brightness) ==
    [pos |-> pos, a |-> a, b |-> b, theta |-> theta, brightness |-> brightness]

\* bodies with annulus i carrying the value of its inner edge, i+1.
bodies_inner_value(body) ==
    IF body.brightness.kind = "scalar"
    THEN <<Ellipse(body.pos, body.a, body.b, body.theta, body.brightness.v)>>
    ELSE LET n   == Len(body.brightness.v)
             a_s == linspace(body.a, 0, n)
             b_s == linspace(body.b, 0, n)
         IN  [i \in 1..(n - 1) |->
                EllipticRing(body.pos, <<a_s[i], a_s[i + 1]>>,
                             <<b_s[i], b_s[i + 1]>>, body.theta,
                             body.brightness.v[i + 1])]

\* EllipticalBody.bodies.  Every brightness of the model is a scalar or a
\* list, so the closing `raise ValueError("Brightness problem")` is not taken.
bodies(body) ==
    IF body.brightness.kind = "scalar"
    THEN <<Ellipse(body.pos, body.a, body.b, body.theta, body.brightness.v)>>
    ELSE LET n   == Len(body.brightness.v)
             a_s == linspace(body.a, 0, n)
             b_s == linspace(body.b, 0, n)
         IN  [i \in 1..(n - 1) |->
                EllipticRing(body.pos, <<a_s[i], a_s[i + 1]>>,
                             <<b_s[i], b_s[i + 1]>>, body.theta,
                             body.brightness.v[i])]

\* EllipticalBody.move
move(body, point, relative) ==
    [body EXCEPT !.pos = IF relative THEN PointAdd(@, point) ELSE point]

\* EllipticalBody.reshape
reshape(body, a, b) == [body EXCEPT !.a = a, !.b = b]

\* EllipticalBody.rotate
rotate(body, theta, relative) ==
    [body EXCEPT !.theta = IF relative THEN @ + theta ELSE theta]

(* ------------------------------ system --------------------------------- *)

\* brtns: the brightness of a body as a list
brtns(body) ==
    IF body.brightness.kind = "scalar" THEN <<body.brightness.v>>
    ELSE body.brightness.v

\* sum(list) of a list of numbers
RECURSIVE Sum(_)
Sum(s) == IF s = <<>> THEN 0 ELSE Head(s) + Sum(Tail(s))

\* zip(regions, brs) stops at the shorter of the two
ZipLen(regions, brs) ==
    IF Len(regions) <= Len(brs) THEN Len(regions) ELSE Len(brs)

\* Binary.get_mag_A
get_mag_A(A) ==
    Sum([k \in 1..ZipLen(bodies(A), brtns(A)) |->
            area(geometry(bodies(A)[k])) * brtns(A)[k]])

\* Binary.get_mag_B
get_mag_B(B) ==
    Sum([k \in 1..ZipLen(bodies(B), brtns(B)) |->
            area(geometry(bodies(B)[k])) * brtns(B)[k]])

\* self.bodyB.bodies[-1].geometry
occulter(B) == geometry(bodies(B)[Len(bodies(B))])

\* get_total_mag with the operands of difference exchanged.
get_total_mag_swapped(A, B) ==
    LET b_mag == get_mag_B(B)
        a_mag == Sum([k \in 1..ZipLen(bodies(A), brtns(A)) |->
                        area(difference(occulter(B), geometry(bodies(A)[k])))
                        * brtns(A)[k]])
    IN  b_mag + a_mag

\* Binary.get_total_mag
get_total_mag(A, B) ==
    LET b_mag == get_mag_B(B)
        a_mag == Sum([k \in 1..ZipLen(bodies(A), brtns(A)) |->
                        area(difference(geometry(bodies(A)[k]), occulter(B)))
                        * brtns(A)[k]])
    IN  b_mag + a_mag

(* ------------------------------ inputs --------------------------------- *)

Scalar(k) == [kind |-> "scalar", v |-> k]

Profile(ks) == [kind |-> "profile", v |-> ks]

\* The systems built at construction: (brightness of A, brightness of B).
\* main.py builds a limb-darkened star and a uniform, fainter occulter.
\* Brightness is not clamped, so one system has a negative value.
Systems ==
    { <<Scalar(10), Scalar(1)>>,
      <<Scalar(-5), Scalar(1)>>,
      <<Profile(<<8, 9, 10>>), Scalar(1)>>,
      <<Scalar(10), Profile(<<1, 2, 3>>)>>,
      <<Profile(<<9, 10>>), Profile(<<1, 2, 3>>)>> }

\* Arguments of move, rotate, reshape and simulate.
MovePoints == { <<6, 1>>, <<-2, 0>> }

RotateAngles == { 90 }

ReshapeAxes == { <<-2, 2>>, <<0, 2>>, <<4, 4>> }

SimTargets == { <<-8, 0>>, <<2, 0>> }

SimAngles == { 0, 180 }

SimSteps == (-1)..MaxStep

NoArgs == [to |-> <<0, 0>>, angle |-> 0, step |-> 0]

NoChain == [ok |-> FALSE, flux |-> 0]

(* ------------------------------ state ---------------------------------- *)

Init ==
    /\ \E s \in Systems :
          /\ bodyA = EllipticalBody(<<0, 0>>, 2, 2, 0, s[1])
          /\ bodyB = EllipticalBody(<<8, 0>>, 4, 2, 0, s[2])
    /\ pc = "idle"
    /\ xs = <<>> /\ ys = <<>> /\ angs = <<>>
    /\ it = 0
    /\ ret = <<>>
    /\ args = NoArgs
    /\ pre = [A |-> bodyA, B |-> bodyB]
    /\ outcome = "none"
    /\ lc = <<>>
    /\ chain = NoChain
    /\ lastOp = "init"
    /\ calls = 0

\* What a call of move, rotate or reshape leaves of the last simulate call.
Forget ==
    /\ pc' = "idle"
    /\ xs' = <<>> /\ ys' = <<>> /\ angs' = <<>>
    /\ it' = 0
    /\ ret' = <<>>
    /\ args' = NoArgs
    /\ outcome' = "none"
    /\ lc' = <<>>
    /\ chain' = NoChain
    /\ lastOp' = "mutate"
    /\ calls' = calls + 1

\* body.move(point, relative) on A or on B
Move ==
    /\ pc = "idle" /\ calls < MaxCalls
    /\ \E point \in MovePoints, relative \in BOOLEAN :
          \/ bodyA' = move(bodyA, point, relative) /\ bodyB' = bodyB
          \/ bodyB' = move(bodyB, point, relative) /\ bodyA' = bodyA
    /\ pre' = [A |-> bodyA', B |-> bodyB']
    /\ Forget

\* body.rotate(theta, relative) on A or on B
Rotate ==
    /\ pc = "idle" /\ calls < MaxCalls
    /\ \E theta \in RotateAngles, relative \in BOOLEAN :
          \/ bodyA' = rotate(bodyA, theta, relative) /\ bodyB' = bodyB
          \/ bodyB' = rotate(bodyB, theta, relative) /\ bodyA' = bodyA
    /\ pre' = [A |-> bodyA', B |-> bodyB']
    /\ Forget

\* body.reshape(a, b) on A or on B
Reshape ==
    /\ pc = "idle" /\ calls < MaxCalls
    /\ \E ab \in ReshapeAxes :
          \/ bodyA' = reshape(bodyA, ab[1], ab[2]) /\ bodyB' = bodyB
          \/ bodyB' = reshape(bodyB, ab[1], ab[2]) /\ bodyA' = bodyA
    /\ pre' = [A |-> bodyA', B |-> bodyB']
    /\ Forget

\* The plot limits computed with a default for an empty xs: nothing raised.
upper_x_lims_quiet(samples) == FALSE

\* max(abs(xs)) raises ValueError on an empty xs (system.py line 120).
upper_x_lims_raises(samples) == Len(samples) = 0

\* Binary.simulate, lines 115-123: the samples, the plot limits, ret = [].
\* An exception leaves the call before the loop is entered.
SimulateCall ==
    /\ pc = "idle" /\ calls < MaxCalls
    /\ \E to \in SimTargets, angle \in SimAngles, step \in SimSteps :
          /\ OnLattice(bodyB.pos[1], to[1], step, 1)
          /\ OnLattice(bodyB.pos[2], to[2], step, 1)
          /\ OnLattice(bodyB.theta, angle, step, 90)
          /\ args' = [to |-> to, angle |-> angle, step |-> step]
          /\ IF linspace_raises(step)
             THEN /\ xs' = <<>> /\ ys' = <<>> /\ angs' = <<>>
                  /\ outcome' = "ValueError"
                  /\ pc' = "idle"
             ELSE /\ xs' = linspace(bodyB.pos[1], to[1], step)
                  /\ ys' = linspace(bodyB.pos[2], to[2], step)
                  /\ angs' = linspace(bodyB.theta, angle, step)
                  /\ IF upper_x_lims_raises(xs')
                     THEN outcome' = "ValueError" /\ pc' = "idle"
                     ELSE outcome' = "none" /\ pc' = "loop"
    /\ pre' = [A |-> bodyA, B |-> bodyB]
    /\ chain' = IF lastOp = "simulate" /\ outcome = "returned" /\ args.step > 1
                THEN [ok |-> TRUE, flux |-> lc[Len(lc)][2]]
                ELSE NoChain
    /\ it' = 0
    /\ ret' = <<>>
    /\ lc' = <<>>
    /\ lastOp' = "simulate"
    /\ calls' = calls + 1
    /\ UNCHANGED <<bodyA, bodyB>>

\* The loop body reading the flux before it moves B.
loop_body_stale(A, B, x, y, ang) ==
    LET moved == rotate(move(B, <<x, y>>, FALSE), ang, FALSE)
    IN  [B |-> moved, flux |-> get_total_mag(A, B)]

\* One pass of the loop of Binary.simulate, lines 125-130: B is moved and
\* rotated to the sample (absolute), then the total flux is read and appended.
loop_body(A, B, x, y, ang) ==
    LET moved == rotate(move(B, <<x, y>>, FALSE), ang, FALSE)
    IN  [B |-> moved, flux |-> get_total_mag(A, moved)]

SimulateStep ==
    /\ pc = "loop" /\ it < Len(xs)
    /\ LET r == loop_body(bodyA, bodyB, xs[it + 1], ys[it + 1], angs[it + 1])
       IN  /\ bodyB' = r.B
           /\ ret' = Append(ret, <<it, r.flux>>)
    /\ it' = it + 1
    /\ UNCHANGED <<bodyA, pc, xs, ys, angs, args, pre, outcome, lc, chain,
                   lastOp, calls>>

\* Binary.simulate, line 150: return np.array(ret)
SimulateReturn ==
    /\ pc = "loop" /\ it = Len(xs)
    /\ lc' = ret
    /\ outcome' = "returned"
    /\ pc' = "idle"
    /\ UNCHANGED <<bodyA, bodyB, xs, ys, angs, it, ret, args, pre, chain,
                   lastOp, calls>>

Next ==
    \/ Move
    \/ Rotate
    \/ Reshape
    \/ SimulateCall
    \/ SimulateStep
    \/ SimulateReturn

Spec == Init /\ [][Next]_vars

(* ------------------------------ claims --------------------------------- *)

\* v is sample k (counted from 1) of n evenly spaced samples from s to t,
\* both ends included; a single sample is s.
IsSample(v, s, t, n, k) ==
    IF n = 1 THEN v = s ELSE (v - s) * (n - 1) = (k - 1) * (t - s)

Interp(s, t, n, k) ==
    CHOOSE v \in (IF s <= t THEN s..t ELSE t..s) : IsSample(v, s, t, n, k)

\* Body B as the k-th pass of the running call must have left it.
SampleB(k) ==
    [pre.B EXCEPT
        !.pos = <<Interp(pre.B.pos[1], args.to[1], args.step, k),
                  Interp(pre.B.pos[2], args.to[2], args.step, k)>>,
        !.theta = Interp(pre.B.theta, args.angle, args.step, k)]

\* C1: for steps >= 1 simulate returns exactly `steps` entries, indexed
\* 0, 1, ..., steps-1 in order, and entry i is the total flux read after B was
\* set (absolutely) to the i-th linearly interpolated sample: first the
\* mutation, then the read, never a stale or a later sample.
C1_EntryPerSample ==
    (lastOp = "simulate" /\ args.step >= 1) =>
        /\ Len(ret) = it
        /\ it <= args.step
        /\ (it >= 1 => bodyB = SampleB(it))
        /\ \A k \in 1..Len(ret) :
              ret[k] = <<k - 1, get_total_mag(pre.A, SampleB(k))>>
        /\ (outcome = "returned" => lc = ret /\ Len(lc) = args.step)

\* A three-sample run has returned, and its middle entry differs from its first.
C1_Witness ==
    /\ lastOp = "simulate" /\ outcome = "returned" /\ args.step = 3
    /\ lc[2][2] # lc[1][2]

\* C2: a run with steps = 1 returns one entry, the total flux of the pre-run
\* state, and leaves B at the given target position.
C2_SingleStepReachesTarget ==
    (lastOp = "simulate" /\ outcome = "returned" /\ args.step = 1) =>
        /\ Len(lc) = 1
        /\ lc[1][2] = get_total_mag(pre.A, pre.B)
        /\ bodyB.pos = args.to

\* C3: a run with steps < 1 is rejected with an error before any mutation:
\* both bodies are as they were before the call and no result, not even a
\* partial one, is produced.
C3_RejectedUntouched ==
    (lastOp = "simulate" /\ args.step < 1) =>
        /\ outcome = "ValueError"
        /\ pc = "idle"
        /\ bodyA = pre.A
        /\ bodyB = pre.B
        /\ ret = <<>>
        /\ lc = <<>>

\* simulate was called with step = 0 and raised.
C3_Witness ==
    lastOp = "simulate" /\ args.step = 0 /\ outcome = "ValueError"

\* The larger of the two semi-axes of a body.
OuterAxis(body) ==
    IF Abs(body.a) >= Abs(body.b) THEN Abs(body.a) ELSE Abs(body.b)

\* The centres of A and B are farther apart than the sum of their outer axes.
Separated(A, B) ==
    LET dx == A.pos[1] - B.pos[1]
        dy == A.pos[2] - B.pos[2]
        r  == OuterAxis(A) + OuterAxis(B)
    IN  dx * dx + dy * dy > r * r

\* C4: when the centres of A and B are farther apart than the sum of their
\* outer axes, the total flux is the sum of the two fluxes.
C4_DisjointIsSum ==
    Separated(bodyA, bodyB) =>
        get_total_mag(bodyA, bodyB) = get_mag_A(bodyA) + get_mag_B(bodyB)

\* The ellipse with the body's semi-axes, grown by `margin`, at the body's
\* position and orientation.
Outline(body, margin) ==
    ScaledRotatedDisc(body.pos[1], body.pos[2],
                      Abs(body.a) + margin, Abs(body.b) + margin, body.theta)

\* B's outer boundary wholly contains A (with one lattice step to spare).
Contains(B, A) ==
    /\ A.a # 0 /\ A.b # 0
    /\ Outline(A, 1) \subseteq Outline(B, 0)

\* C5: whenever B's outer boundary wholly contains A, the total flux is the
\* flux of B: A contributes nothing, for scalar B and for a profile alike.
C5_ContainedIsOcculted ==
    Contains(bodyB, bodyA) =>
        get_total_mag(bodyA, bodyB) = get_mag_B(bodyB)

\* C6 for one body.
C6_Holds(body) ==
    LET rs == bodies(body)
        n  == Len(body.brightness.v)
    IN  IF body.brightness.kind = "scalar"
        THEN /\ Len(rs) = 1
             /\ rs[1].kind = "Ellipse"
             /\ rs[1].a = body.a /\ rs[1].b = body.b
             /\ rs[1].brightness = body.brightness.v
        ELSE /\ Len(rs) = n - 1
             /\ \A i \in 1..(n - 1) :
                   /\ rs[i].kind = "EllipticRing"
                   /\ (n - 1) * rs[i].a_range[1] = (n - i) * body.a
                   /\ (n - 1) * rs[i].a_range[2] = (n - i - 1) * body.a
                   /\ (n - 1) * rs[i].b_range[1] = (n - i) * body.b
                   /\ (n - 1) * rs[i].b_range[2] = (n - i - 1) * body.b
                   /\ rs[i].brightness = body.brightness.v[i]
                   /\ (body.a > 0 /\ body.b > 0) =>
                         /\ rs[i].a_range[2] < rs[i].a_range[1]
                         /\ rs[i].b_range[2] < rs[i].b_range[1]
                         /\ (i > 1 => /\ rs[i].a_range[1] < rs[i - 1].a_range[1]
                                      /\ rs[i].b_range[1] < rs[i - 1].b_range[1])

\* C6: bodies is one full ellipse with the body's brightness for a scalar,
\* and n-1 annuli for an n-element profile: the axes are n evenly spaced
\* samples from (a, b) to (0, 0), annulus i lies between samples i and i+1
\* (outer axes strictly decreasing inwards when a, b > 0) and carries the
\* i-th profile value.
C6_BodiesShape == C6_Holds(bodyA) /\ C6_Holds(bodyB)

\* A three-value profile on a body that was reshaped to positive axes.
C6_Witness ==
    /\ lastOp = "mutate"
    /\ bodyA.brightness.kind = "profile" /\ Len(bodyA.brightness.v) = 3
    /\ bodyA.a = 4 /\ bodyA.b = 4

\* Twice the centre of the bounding box of a non-empty polygon.
Centre2(g) ==
    LET X == {p[1] : p \in g}
        Y == {p[2] : p \in g}
        lo(S) == CHOOSE m \in S : \A z \in S : m <= z
        hi(S) == CHOOSE m \in S : \A z \in S : m >= z
    IN  <<lo(X) + hi(X), lo(Y) + hi(Y)>>

\* C7 for one body.
C7_Holds(body) ==
    \A k \in 1..Len(bodies(body)) :
        LET region == bodies(body)[k]
            g == geometry(region)
        IN  /\ region.theta = body.theta
            /\ g # {} => Centre2(g) = <<2 * body.pos[1], 2 * body.pos[2]>>

\* C7: after any sequence of move, rotate and reshape calls, every region of
\* bodies() is centred at the body's current position and has its current
\* orientation, for an Ellipse and for an EllipticRing.
C7_RegionsCentred == C7_Holds(bodyA) /\ C7_Holds(bodyB)

NegativeAxis(body) == body.a < 0 \/ body.b < 0

ZeroAxis(body) == body.a = 0 \/ body.b = 0

\* C8: a region of a body with a negative semi-axis is refused with an
\* invalid-argument error when it is constructed, so no flux value comes of
\* it; a zero-axis ellipse is accepted and has area 0.
C8_NegativeAxisRefused ==
    /\ (lastOp = "simulate" /\ args.step >= 1
        /\ (NegativeAxis(bodyA) \/ NegativeAxis(bodyB))) =>
            (ret = <<>> /\ outcome # "returned")
    /\ (ZeroAxis(bodyA) /\ bodyA.brightness.kind = "scalar") =>
            area(geometry(bodies(bodyA)[1])) = 0

NonNegative(body) == \A k \in 1..Len(brtns(body)) : brtns(body)[k] >= 0

\* C10: with non-negative brightness every flux recorded by a run lies
\* between the flux of B and the sum of the fluxes of A and B.
C10_FluxBounds ==
    (pc = "loop" /\ it >= 1 /\ NonNegative(bodyA) /\ NonNegative(bodyB)) =>
        /\ get_mag_B(bodyB) <= ret[it][2]
        /\ ret[it][2] <= get_mag_A(bodyA) + get_mag_B(bodyB)

\* A recorded flux strictly between the two bounds: a partial occultation.
C10_Witness ==
    /\ pc = "loop" /\ it >= 1
    /\ get_mag_B(bodyB) < ret[it][2]
    /\ ret[it][2] < get_mag_A(bodyA) + get_mag_B(bodyB)

====
